---- MODULE Spec2Model ----
(***************************************************************************)
(* Authorization model of the equipment-rental application: the relational *)
(* store (users, projects, purchase_orders, delivery_notes, dn_items,      *)
(* audit_logs), the access checks of src/lib/auth-utils (checkUserRole,    *)
(* checkProjectAccess, checkPurchaseOrderAccess,                           *)
(* checkDeliveryNoteItemAccess), the process-return handler and the        *)
(* upload-po-document and generate-rental-report handlers.  Four           *)
(* specifications: SpecAccess (single calls of the checks), Spec (two      *)
(* process-return requests), SpecFunctions (one request of any handler)    *)
(* and SpecDates (one process-return request, any dates on the item).      *)
(***************************************************************************)
EXTENDS Integers, Sequences, FiniteSets, TLC

VARIABLES users, projects, purchase_orders, delivery_notes, dn_items,
          audit_logs, storage, call, req, roleChanges

\* The tables, and the objects of the storage bucket 'purchase-orders'.
store == <<users, projects, purchase_orders, delivery_notes, dn_items, audit_logs, storage>>
vars == <<users, projects, purchase_orders, delivery_notes, dn_items, audit_logs, storage,
          call, req, roleChanges>>

(***************************************************************************)
(* Identifiers.  u0 is an authenticated principal without a public.users   *)
(* row; P0, PO0, D0 and I0 are ids that have no row in their table.        *)
(***************************************************************************)
Roles == {"admin", "manager", "user"}
Principals == {"u0", "u1", "u2", "m1"}
Registered == {"u1", "u2", "m1"}
ProjectIds == {"P0", "P1", "P2"}
PoIds == {"PO0", "PO1", "PO2"}
DnIds == {"D0", "D1", "D2"}
ItemIds == {"I0", "I1", "I2"}

\* A missing row, and the null `data` of a failed lookup.
NoRow == [absent |-> TRUE]

\* What one store round trip can do: answer, answer with an error, or reject.
Outcomes == {"ok", "error", "throw"}

\* The outcome of each lookup a check issues, by table.
Faults == [users : Outcomes, projects : Outcomes, purchase_orders : Outcomes, dn_items : Outcomes]
NoFault == [users |-> "ok", projects |-> "ok", purchase_orders |-> "ok", dn_items |-> "ok"]

\* .from(table).select(..).eq('id', id).single(): exactly one row, or an error.
single(table, id, o) ==
  IF o = "throw" THEN [thrown |-> TRUE, error |-> FALSE, data |-> NoRow]
  ELSE IF o = "error" \/ id \notin DOMAIN table \/ table[id] = NoRow
       THEN [thrown |-> FALSE, error |-> TRUE, data |-> NoRow]
       ELSE [thrown |-> FALSE, error |-> FALSE, data |-> table[id]]

\* How an async function ends: it resolves to a value or rejects.
Return(v) == [threw |-> FALSE, value |-> v]
Throw == [threw |-> TRUE, value |-> FALSE]

(***************************************************************************)
(* The access checks, statement by statement.  Every body sits in a        *)
(* try/catch whose catch branch returns false.                             *)
(***************************************************************************)
checkUserRole_ErrorAllows(userId, requiredRoles, f) ==
  LET q == single(users, userId, f.users) IN
  IF q.thrown THEN Throw
  ELSE IF q.error \/ q.data = NoRow THEN Return(TRUE)
  ELSE Return(q.data.role \in requiredRoles)

checkUserRole(userId, requiredRoles, f) ==
  LET q == single(users, userId, f.users) IN
  IF q.thrown THEN Return(FALSE)
  ELSE IF q.error \/ q.data = NoRow THEN Return(FALSE)
  ELSE Return(q.data.role \in requiredRoles)

\* Ownership only: the admin/manager shortcut is missing.
checkProjectAccess_OwnerOnly(userId, projectId, f) ==
  LET q == single(projects, projectId, f.projects) IN
  IF q.thrown THEN Return(FALSE)
  ELSE IF q.error \/ q.data = NoRow THEN Return(FALSE)
  ELSE Return(q.data.created_by = userId)

\* The coarse predicate of the first policy generation: any existing project.
checkProjectAccess_AnyProject(userId, projectId, f) ==
  LET hasRole == checkUserRole(userId, {"admin", "manager"}, f) IN
  IF hasRole.threw THEN Return(FALSE)
  ELSE IF hasRole.value THEN Return(TRUE)
  ELSE LET q == single(projects, projectId, f.projects) IN
       IF q.thrown THEN Return(FALSE)
       ELSE IF q.error \/ q.data = NoRow THEN Return(FALSE)
       ELSE Return(TRUE)

\* Role only: the created_by comparison is missing.
checkProjectAccess_RoleOnly(userId, projectId, f) ==
  LET hasRole == checkUserRole(userId, {"admin", "manager"}, f) IN
  IF hasRole.threw THEN Return(FALSE) ELSE hasRole

checkProjectAccess(userId, projectId, f) ==
  LET hasRole == checkUserRole(userId, {"admin", "manager"}, f) IN
  IF hasRole.threw THEN Return(FALSE)
  ELSE IF hasRole.value THEN Return(TRUE)
  ELSE LET q == single(projects, projectId, f.projects) IN
       IF q.thrown THEN Return(FALSE)
       ELSE IF q.error \/ q.data = NoRow THEN Return(FALSE)
       ELSE Return(q.data.created_by = userId)

\* The purchase order's existence is taken for access: no walk up to the project.
checkPurchaseOrderAccess_NoProjectCheck(userId, poId, f) ==
  LET q == single(purchase_orders, poId, f.purchase_orders) IN
  IF q.thrown THEN Return(FALSE)
  ELSE IF q.error \/ q.data = NoRow THEN Return(FALSE)
  ELSE Return(TRUE)

\* The walk stops at the role: the project's creator is not recognised.
checkPurchaseOrderAccess_RoleOnly(userId, poId, f) ==
  LET q == single(purchase_orders, poId, f.purchase_orders) IN
  IF q.thrown THEN Return(FALSE)
  ELSE IF q.error \/ q.data = NoRow THEN Return(FALSE)
  ELSE LET r == checkUserRole(userId, {"admin", "manager"}, f) IN
       IF r.threw THEN Return(FALSE) ELSE r

\* The role is tested before the purchase order is looked up.
checkPurchaseOrderAccess_RoleFirst(userId, poId, f) ==
  LET hasRole == checkUserRole(userId, {"admin", "manager"}, f) IN
  IF hasRole.value THEN Return(TRUE)
  ELSE LET q == single(purchase_orders, poId, f.purchase_orders) IN
       IF q.thrown THEN Return(FALSE)
       ELSE IF q.error \/ q.data = NoRow THEN Return(FALSE)
       ELSE LET r == checkProjectAccess(userId, q.data.project_id, f) IN
            IF r.threw THEN Return(FALSE) ELSE r

checkPurchaseOrderAccess(userId, poId, f) ==
  LET q == single(purchase_orders, poId, f.purchase_orders) IN
  IF q.thrown THEN Return(FALSE)
  ELSE IF q.error \/ q.data = NoRow THEN Return(FALSE)
  ELSE LET r == checkProjectAccess(userId, q.data.project_id, f) IN
       IF r.threw THEN Return(FALSE) ELSE r

\* dn_items joined with its delivery note: delivery_notes!inner(purchase_order_id).
dnItemWithNote ==
  [i \in ItemIds |->
     IF dn_items[i] = NoRow THEN NoRow
     ELSE IF delivery_notes[dn_items[i].delivery_note_id] = NoRow THEN NoRow
     ELSE [delivery_notes |->
             [purchase_order_id |->
                delivery_notes[dn_items[i].delivery_note_id].purchase_order_id]]]

checkDeliveryNoteItemAccess(userId, dnItemId, f) ==
  LET q == single(dnItemWithNote, dnItemId, f.dn_items) IN
  IF q.thrown THEN Return(FALSE)
  ELSE IF q.error \/ q.data = NoRow THEN Return(FALSE)
  ELSE LET r == checkPurchaseOrderAccess(userId, q.data.delivery_notes.purchase_order_id, f) IN
       IF r.threw THEN Return(FALSE) ELSE r

(***************************************************************************)
(* The store.  Rows reference their parents by id; the chain links are     *)
(* fixed once a row exists (foreign keys, NOT NULL).                       *)
(***************************************************************************)
MaxQty == 2
MaxDate == 1

ItemRow(dn, delivered, created) ==
  [delivery_note_id |-> dn, delivered_quantity |-> delivered, returned_quantity |-> 0,
   status |-> "delivered", created_at |-> created, returned_at |-> -1]

NoCall == [fn |-> "none", userId |-> "u0", target |-> "P0", roles |-> {},
           f |-> NoFault, result |-> Return(FALSE)]

Requests == {"r1", "r2"}
MaxRoleChanges == 1

\* The Authorization header: absent, or a scheme prefix and the rest.
NoHeader == [absent |-> TRUE]
Header(prefix, rest) == [prefix |-> prefix, rest |-> rest]

\* A request that has not arrived: the handler's locals, unset.
IdleReq ==
  [fn |-> "none", pc |-> "idle", authToken |-> NoHeader, user |-> "nobody", body |-> [dnItemId |-> "I0", returnedQuantity |-> 0, returnDate |-> 0],
   dnItem |-> NoRow, newReturnedQuantity |-> 0, newStatus |-> "", statusCode |-> 0, message |-> ""]

InitStore ==
  /\ users \in [Principals -> {[role |-> r] : r \in Roles} \cup {NoRow}]
  /\ \A p \in Principals : (users[p] = NoRow) <=> (p \notin Registered)
  /\ \E p \in Registered :
       projects = [x \in ProjectIds |->
         CASE x = "P0" -> NoRow
           [] x = "P1" -> [created_by |-> p]
           [] x = "P2" -> [created_by |-> "u2"]]
  /\ purchase_orders = [x \in PoIds |->
       CASE x = "PO0" -> NoRow
         [] x = "PO1" -> [project_id |-> "P1"]
         [] x = "PO2" -> [project_id |-> "P2"]]
  /\ delivery_notes = [x \in DnIds |->
       CASE x = "D0" -> NoRow
         [] x = "D1" -> [purchase_order_id |-> "PO1", delivery_date |-> 0]
         [] x = "D2" -> [purchase_order_id |-> "PO2", delivery_date |-> 0]]
  /\ dn_items = [x \in ItemIds |->
       CASE x = "I0" -> NoRow
         [] x = "I1" -> ItemRow("D1", MaxQty, 0)
         [] x = "I2" -> ItemRow("D2", MaxQty, 0)]
  /\ audit_logs = <<>>
  /\ storage = {}

(***************************************************************************)
(* Authentication: the token of the request and the identity provider.     *)
(***************************************************************************)
\* The value of one header: a scheme prefix and the rest; Header("", "") is
\* the empty string.
HeaderValues ==
  {Header("", ""), Header("Bearer ", "u1"), Header("Bearer ", ""), Header("Basic ", "m1"),
   Header("bearer ", "u1"), Header("", "u1")}

\* req.headers: the two spellings of the key, each absent or with a value.
RequestHeaders ==
  [authorization : HeaderValues \cup {NoHeader}, Authorization : HeaderValues \cup {NoHeader}]

\* The headers the requests of the handlers carry.
Headers ==
  {[authorization |-> NoHeader, Authorization |-> NoHeader]}
  \cup {[authorization |-> Header("Bearer ", t), Authorization |-> NoHeader] :
          t \in Principals \cup {"expired"}}
  \cup {[authorization |-> NoHeader, Authorization |-> Header("Basic ", "m1")]}

\* A value `!v` is false for: a header that is there and is not empty.
truthy(v) == v # NoHeader /\ v # Header("", "")

\* Only the lower-case key is read.
extractAuthToken_LowerCaseOnly(headers) ==
  LET authHeader == headers.authorization IN
  IF ~truthy(authHeader) THEN NoHeader
  ELSE IF authHeader.prefix = "Bearer " THEN Header("", authHeader.rest)
  ELSE authHeader

\* authorization || Authorization; null when that is missing or empty; the
\* value without a leading 'Bearer ', the whole value otherwise.
extractAuthToken(headers) ==
  LET authHeader == IF truthy(headers.authorization) THEN headers.authorization
                    ELSE headers.Authorization IN
  IF ~truthy(authHeader) THEN NoHeader
  ELSE IF authHeader.prefix = "Bearer " THEN Header("", authHeader.rest)
  ELSE authHeader

\* What the identity provider can do: as a store round trip, or answer with
\* neither a user nor an error, or with both.
AuthOutcomes == Outcomes \cup {"nouser", "both"}

\* supabase.auth.getUser() for the client's token: the provider knows the
\* tokens of the principals and nothing else.
getUser(token, o) ==
  IF o = "throw" THEN [thrown |-> TRUE, error |-> FALSE, user |-> NoRow]
  ELSE IF o = "nouser" THEN [thrown |-> FALSE, error |-> FALSE, user |-> NoRow]
  ELSE IF o = "both" THEN [thrown |-> FALSE, error |-> TRUE, user |-> [id |-> token.rest]]
  ELSE IF o = "error" \/ token.prefix # "" \/ token.rest \notin Principals
       THEN [thrown |-> FALSE, error |-> TRUE, user |-> NoRow]
       ELSE [thrown |-> FALSE, error |-> FALSE, user |-> [id |-> token.rest]]

\* A rejected token is told apart from a missing one.
authenticateUser_Detailed(token, o) ==
  LET g == getUser(token, o) IN
  IF g.thrown THEN [success |-> FALSE, error |-> "Invalid authentication token", user |-> NoRow]
  ELSE IF g.error \/ g.user = NoRow
       THEN [success |-> FALSE, error |-> "Invalid or expired token", user |-> NoRow]
       ELSE [success |-> TRUE, error |-> "", user |-> g.user]

\* The provider's error is not looked at when a user came back.
authenticateUser_ErrorIgnored(token, o) ==
  LET g == getUser(token, o) IN
  IF g.thrown THEN [success |-> FALSE, error |-> "Invalid authentication token", user |-> NoRow]
  ELSE IF g.user = NoRow
       THEN [success |-> FALSE, error |-> "Authentication required", user |-> NoRow]
       ELSE [success |-> TRUE, error |-> "", user |-> g.user]

authenticateUser(token, o) ==
  LET g == getUser(token, o) IN
  IF g.thrown THEN [success |-> FALSE, error |-> "Invalid authentication token", user |-> NoRow]
  ELSE IF g.error \/ g.user = NoRow
       THEN [success |-> FALSE, error |-> "Authentication required", user |-> NoRow]
       ELSE [success |-> TRUE, error |-> "", user |-> g.user]

(***************************************************************************)
(* Calls of the access checks against the current store.                   *)
(***************************************************************************)
\* At most one lookup of a check fails.
SingleFaults == {f \in Faults : Cardinality({t \in DOMAIN f : f[t] # "ok"}) <= 1}

FaultsOn(tables) == {f \in Faults : \A t \in DOMAIN f : t \notin tables => f[t] = "ok"}

\* Who can issue a statement: a principal through its own client, or the
\* service role, to which no policy applies.
Callers == Principals \cup {"service_role"}

\* The policies of public.users: a row is updated by its owner, without a
\* restriction on the columns; there is no policy for INSERT.
usersUpdatePolicy(uid, p) == uid = p
usersInsertPolicy(uid, p) == FALSE

\* An UPDATE of public.users.role issued by uid.
UpdateUserRole(uid, p, r) ==
  /\ call = NoCall
  /\ roleChanges < MaxRoleChanges
  /\ users[p] # NoRow
  /\ users[p].role # r
  /\ uid = "service_role" \/ usersUpdatePolicy(uid, p)
  /\ users' = [users EXCEPT ![p] = [role |-> r]]
  /\ roleChanges' = roleChanges + 1
  /\ UNCHANGED <<projects, purchase_orders, delivery_notes, dn_items, audit_logs, storage,
                 call, req>>

\* The check leaves a trace of itself in audit_logs.
CallCheckUserRole_Logged(u, roles, f) ==
  /\ call = NoCall
  /\ call' = [fn |-> "checkUserRole", userId |-> u, target |-> "P0", roles |-> roles,
              f |-> f, result |-> checkUserRole(u, roles, f)]
  /\ audit_logs' = Append(audit_logs, [user_id |-> u, action |-> "ROLE_CHECKED"])
  /\ UNCHANGED <<users, projects, purchase_orders, delivery_notes, dn_items, storage,
                 req, roleChanges>>

CallCheckUserRole(u, roles, f) ==
  /\ call = NoCall
  /\ call' = [fn |-> "checkUserRole", userId |-> u, target |-> "P0", roles |-> roles,
              f |-> f, result |-> checkUserRole(u, roles, f)]
  /\ UNCHANGED <<store, req, roleChanges>>

CallCheckProjectAccess(u, x, f) ==
  /\ call = NoCall
  /\ call' = [fn |-> "checkProjectAccess", userId |-> u, target |-> x, roles |-> {},
              f |-> f, result |-> checkProjectAccess(u, x, f)]
  /\ UNCHANGED <<store, req, roleChanges>>

CallCheckPurchaseOrderAccess(u, x, f) ==
  /\ call = NoCall
  /\ call' = [fn |-> "checkPurchaseOrderAccess", userId |-> u, target |-> x, roles |-> {},
              f |-> f, result |-> checkPurchaseOrderAccess(u, x, f)]
  /\ UNCHANGED <<store, req, roleChanges>>

CallCheckDeliveryNoteItemAccess(u, x, f) ==
  /\ call = NoCall
  /\ call' = [fn |-> "checkDeliveryNoteItemAccess", userId |-> u, target |-> x, roles |-> {},
              f |-> f, result |-> checkDeliveryNoteItemAccess(u, x, f)]
  /\ UNCHANGED <<store, req, roleChanges>>

\* handleRegister of the registration page: after signUp the new principal
\* inserts its own profile row with the role picked in the form.
HandleRegister(p, role) ==
  /\ call = NoCall
  /\ users[p] = NoRow
  /\ call' = [fn |-> "handleRegister", userId |-> p, target |-> "P0", roles |-> {role},
              f |-> NoFault, result |-> Return(usersInsertPolicy(p, p))]
  /\ IF usersInsertPolicy(p, p)
     THEN users' = [users EXCEPT ![p] = [role |-> role]]
     ELSE UNCHANGED users
  /\ UNCHANGED <<projects, purchase_orders, delivery_notes, dn_items, audit_logs, storage,
                 req, roleChanges>>

\* authenticateUser for the token of a request that carries one.
CallAuthenticateUser(authHeader, o) ==
  /\ call = NoCall
  /\ extractAuthToken(authHeader) # NoHeader
  /\ call' = [fn |-> "authenticateUser", userId |-> "u0", target |-> "P0", roles |-> {},
              f |-> NoFault, token |-> extractAuthToken(authHeader), o |-> o,
              result |-> authenticateUser(extractAuthToken(authHeader), o)]
  /\ UNCHANGED <<store, req, roleChanges>>

\* extractAuthToken for the headers of a request.
CallExtractAuthToken(headers) ==
  /\ call = NoCall
  /\ call' = [fn |-> "extractAuthToken", userId |-> "u0", target |-> "P0", roles |-> {},
              f |-> NoFault, headers |-> headers, result |-> Return(extractAuthToken(headers))]
  /\ UNCHANGED <<store, req, roleChanges>>

\* The caller takes the result; the next call may start.
ResultConsumed ==
  /\ call # NoCall
  /\ call' = NoCall
  /\ UNCHANGED <<store, req, roleChanges>>

InitAccess ==
  /\ InitStore
  /\ call = NoCall
  /\ req = [r \in Requests |-> IdleReq]
  /\ roleChanges = 0

NextAccess ==
  \/ \E uid \in Callers, p \in Principals, r \in Roles : UpdateUserRole(uid, p, r)
  \/ \E u \in Principals, roles \in SUBSET Roles, f \in FaultsOn({"users"}) :
       CallCheckUserRole(u, roles, f)
  \/ \E u \in Principals, x \in ProjectIds, f \in FaultsOn({"users", "projects"}) :
       CallCheckProjectAccess(u, x, f)
  \/ \E u \in Principals, x \in PoIds, f \in FaultsOn({"users", "projects", "purchase_orders"}) :
       CallCheckPurchaseOrderAccess(u, x, f)
  \/ \E u \in Principals, x \in ItemIds, f \in Faults :
       CallCheckDeliveryNoteItemAccess(u, x, f)
  \/ \E h \in Headers, o \in AuthOutcomes : CallAuthenticateUser(h, o)
  \/ \E h \in RequestHeaders : CallExtractAuthToken(h)
  \/ \E p \in Principals, role \in Roles : HandleRegister(p, role)
  \/ ResultConsumed

SpecAccess == InitAccess /\ [][NextAccess]_vars

(***************************************************************************)
(* The process-return handler.  A request runs from one await to the next  *)
(* in one step; requests interleave at the awaits.                         *)
(***************************************************************************)
\* returnProcessSchema: a known id shape, a positive whole quantity of at most
\* MaxReturnQuantity, a well-formed date (-1 stands for a malformed one).
MaxReturnQuantity == 10000
\* The items requests name: one that exists and one that does not.
RequestItems == {"I0", "I1"}
Quantities == 0..MaxQty
Dates == -1..MaxDate
validateInput(body) ==
  /\ body.returnedQuantity > 0
  /\ body.returnedQuantity <= MaxReturnQuantity
  /\ body.returnDate >= 0

\* has_any_role(required_roles) for the caller auth.uid() = uid.
has_any_role(uid, required_roles) ==
  users[uid] # NoRow /\ users[uid].role \in required_roles

is_authenticated_user(uid) == users[uid] # NoRow

\* can_access_project(project_id) for the caller auth.uid() = uid.
can_access_project(uid, project_id) ==
  /\ projects[project_id] # NoRow
  /\ users[uid] # NoRow
  /\ (projects[project_id].created_by = uid \/ users[uid].role \in {"admin", "manager"})

\* SELECT policy of dn_items: the rows the caller sees.
dnItemsSelectPolicy(uid, i) ==
  /\ is_authenticated_user(uid)
  /\ delivery_notes[dn_items[i].delivery_note_id] # NoRow
  /\ purchase_orders[delivery_notes[dn_items[i].delivery_note_id].purchase_order_id] # NoRow
  /\ can_access_project(uid,
       purchase_orders[delivery_notes[dn_items[i].delivery_note_id].purchase_order_id].project_id)

\* The policy of the initial schema: every authenticated caller may change rows.
dnItemsUpdatePolicy_Authenticated(uid, i) == uid \in Principals

\* UPDATE policy of dn_items: the rows the caller may change.
dnItemsUpdatePolicy(uid, i) == has_any_role(uid, {"admin", "manager"})

dnItemsVisibleTo(uid) ==
  [i \in ItemIds |->
     IF dn_items[i] # NoRow /\ dnItemsSelectPolicy(uid, i) THEN dn_items[i] ELSE NoRow]

\* The roles that may process a return.
ReturnRoles_Everyone == Roles

ReturnRoles == {"admin", "manager"}

\* res.status(code).json(..): the request is answered and ends.  The token,
\* the caller and the item id are remembered once the handler has returned.
Respond(rq, code, msg) ==
  [IdleReq EXCEPT !.fn = rq.fn, !.pc = "done", !.authToken = rq.authToken, !.user = rq.user,
                  !.body.dnItemId = rq.body.dnItemId, !.statusCode = code, !.message = msg]

\* Lines 12-31: method, token, authenticateUser.  The request names its item;
\* the rest of its body is drawn where the handler first reads it.
HandlerStart(r, method, authHeader, dnItemId, o) ==
  /\ req[r].pc = "idle"
  /\ LET authToken == extractAuthToken(authHeader)
         rq0 == [req[r] EXCEPT !.fn = "process-return", !.body.dnItemId = dnItemId]
         rq == [rq0 EXCEPT !.authToken = authToken]
     IN IF method # "POST" THEN req' = [req EXCEPT ![r] = Respond(rq0, 405, "Method not allowed")]
        ELSE IF authToken = NoHeader
        THEN req' = [req EXCEPT ![r] = Respond(rq, 401, "Authentication required")]
        ELSE LET a == authenticateUser(authToken, o) IN
             IF ~a.success \/ a.user = NoRow
             THEN req' = [req EXCEPT ![r] = Respond(rq, 401, a.error)]
             ELSE req' = [req EXCEPT ![r] = [rq EXCEPT !.pc = "checkRole", !.user = a.user.id]]
  /\ UNCHANGED <<store, call, roleChanges>>

\* Lines 33-45: the role gate, then validation of the body.
HandlerCheckRole(r, returnedQuantity, returnDate, f) ==
  /\ req[r].pc = "checkRole"
  /\ LET hasRole == checkUserRole(req[r].user, ReturnRoles, f)
         body == [req[r].body EXCEPT !.returnedQuantity = returnedQuantity,
                                     !.returnDate = returnDate] IN
     IF hasRole.threw
     THEN req' = [req EXCEPT ![r] = Respond(req[r], 500, "Internal server error")]
     ELSE IF ~hasRole.value
     THEN req' = [req EXCEPT ![r] =
                    Respond(req[r], 403, "Only managers and admins can process returns")]
     ELSE IF ~validateInput(body)
     THEN req' = [req EXCEPT ![r] = Respond(req[r], 400, "Invalid input data")]
     ELSE req' = [req EXCEPT ![r].pc = "checkAccess", ![r].body = body]
  /\ UNCHANGED <<store, call, roleChanges>>

\* The answer of the role gate is kept for the access check: the caller is
\* taken to be admin or manager still, so an item with its chain is granted.
HandlerCheckAccess_RoleKept(r, f) ==
  /\ req[r].pc = "checkAccess"
  /\ LET q == single(dnItemWithNote, req[r].body.dnItemId, f.dn_items)
         hasAccess ==
           IF q.thrown \/ q.error \/ q.data = NoRow THEN Return(FALSE)
           ELSE checkPurchaseOrderAccess_NoProjectCheck(
                  req[r].user, q.data.delivery_notes.purchase_order_id, f)
     IN IF ~hasAccess.value
        THEN req' = [req EXCEPT ![r] =
                       Respond(req[r], 403, "You do not have access to this delivery note item")]
        ELSE req' = [req EXCEPT ![r].pc = "fetch"]
  /\ UNCHANGED <<store, call, roleChanges>>

\* The access check left out: the request goes from validation to the fetch.
HandlerCheckAccess_Skipped(r, f) ==
  /\ req[r].pc = "checkAccess"
  /\ req' = [req EXCEPT ![r].pc = "fetch"]
  /\ UNCHANGED <<store, call, roleChanges>>

\* Lines 47-51: access to the delivery-note item.
HandlerCheckAccess(r, f) ==
  /\ req[r].pc = "checkAccess"
  /\ LET hasAccess == checkDeliveryNoteItemAccess(req[r].user, req[r].body.dnItemId, f) IN
     IF hasAccess.threw
     THEN req' = [req EXCEPT ![r] = Respond(req[r], 500, "Internal server error")]
     ELSE IF ~hasAccess.value
     THEN req' = [req EXCEPT ![r] =
                    Respond(req[r], 403, "You do not have access to this delivery note item")]
     ELSE req' = [req EXCEPT ![r].pc = "fetch"]
  /\ UNCHANGED <<store, call, roleChanges>>

\* The quantity rule left out: the sum is not compared with what was delivered.
HandlerFetch_NoQuantityRule(r, o) ==
  /\ req[r].pc = "fetch"
  /\ LET q == single(dnItemsVisibleTo(req[r].user), req[r].body.dnItemId, o)
         newReturnedQuantity == q.data.returned_quantity + req[r].body.returnedQuantity
     IN IF q.thrown
        THEN req' = [req EXCEPT ![r] = Respond(req[r], 500, "Internal server error")]
        ELSE IF q.error \/ q.data = NoRow
        THEN req' = [req EXCEPT ![r] = Respond(req[r], 404, "Delivery note item not found")]
        ELSE IF req[r].body.returnDate < q.data.created_at
        THEN req' = [req EXCEPT ![r] =
                       Respond(req[r], 400, "Return date cannot be before delivery date")]
        ELSE req' = [req EXCEPT ![r].pc = "update",
                                ![r].dnItem = q.data,
                                ![r].newReturnedQuantity = newReturnedQuantity,
                                ![r].newStatus =
                                  IF newReturnedQuantity >= q.data.delivered_quantity
                                  THEN "fully_returned" ELSE "partial_return"]
  /\ UNCHANGED <<store, call, roleChanges>>

\* Lines 53-75: the current row, the quantity and date rules, the new status.
HandlerFetch(r, o) ==
  /\ req[r].pc = "fetch"
  /\ LET q == single(dnItemsVisibleTo(req[r].user), req[r].body.dnItemId, o)
         newReturnedQuantity == q.data.returned_quantity + req[r].body.returnedQuantity
     IN IF q.thrown
        THEN req' = [req EXCEPT ![r] = Respond(req[r], 500, "Internal server error")]
        ELSE IF q.error \/ q.data = NoRow
        THEN req' = [req EXCEPT ![r] = Respond(req[r], 404, "Delivery note item not found")]
        ELSE IF newReturnedQuantity > q.data.delivered_quantity
        THEN req' = [req EXCEPT ![r] =
                       Respond(req[r], 400, "Cannot return more than delivered quantity")]
        ELSE IF req[r].body.returnDate < q.data.created_at
        THEN req' = [req EXCEPT ![r] =
                       Respond(req[r], 400, "Return date cannot be before delivery date")]
        ELSE req' = [req EXCEPT ![r].pc = "update",
                                ![r].dnItem = q.data,
                                ![r].newReturnedQuantity = newReturnedQuantity,
                                ![r].newStatus =
                                  IF newReturnedQuantity >= q.data.delivered_quantity
                                  THEN "fully_returned" ELSE "partial_return"]
  /\ UNCHANGED <<store, call, roleChanges>>

\* The update writes the quantity and the date and leaves the status column.
HandlerUpdate_QuantityOnly(r, o) ==
  /\ req[r].pc = "update"
  /\ LET i == req[r].body.dnItemId IN
     IF o = "throw"
     THEN /\ req' = [req EXCEPT ![r] = Respond(req[r], 500, "Internal server error")]
          /\ UNCHANGED dn_items
     ELSE IF o = "error"
     THEN /\ req' = [req EXCEPT ![r] =
                       Respond(req[r], 500, "Failed to update delivery note item")]
          /\ UNCHANGED dn_items
     ELSE /\ req' = [req EXCEPT ![r].pc = "audit"]
          /\ IF dn_items[i] # NoRow /\ dnItemsUpdatePolicy(req[r].user, i)
             THEN dn_items' = [dn_items EXCEPT
                                 ![i].returned_quantity = req[r].newReturnedQuantity,
                                 ![i].returned_at = req[r].body.returnDate]
             ELSE UNCHANGED dn_items
  /\ UNCHANGED <<users, projects, purchase_orders, delivery_notes, audit_logs, storage,
                 call, roleChanges>>

\* Lines 83-97: the update of the row, under the caller's UPDATE policy: a row
\* the policy hides is not changed and no error is reported.
HandlerUpdate(r, o) ==
  /\ req[r].pc = "update"
  /\ LET i == req[r].body.dnItemId IN
     IF o = "throw"
     THEN /\ req' = [req EXCEPT ![r] = Respond(req[r], 500, "Internal server error")]
          /\ UNCHANGED dn_items
     ELSE IF o = "error"
     THEN /\ req' = [req EXCEPT ![r] =
                       Respond(req[r], 500, "Failed to update delivery note item")]
          /\ UNCHANGED dn_items
     ELSE /\ req' = [req EXCEPT ![r].pc = "audit"]
          /\ IF dn_items[i] # NoRow /\ dnItemsUpdatePolicy(req[r].user, i)
             THEN dn_items' = [dn_items EXCEPT
                                 ![i].returned_quantity = req[r].newReturnedQuantity,
                                 ![i].returned_at = req[r].body.returnDate,
                                 ![i].status = req[r].newStatus]
             ELSE UNCHANGED dn_items
  /\ UNCHANGED <<users, projects, purchase_orders, delivery_notes, audit_logs, storage,
                 call, roleChanges>>

AuditRecord(rq) ==
  [user_id |-> rq.user, action |-> "RETURN_PROCESSED", table_name |-> "dn_items",
   record_id |-> rq.body.dnItemId,
   old_values |-> [returned_quantity |-> rq.dnItem.returned_quantity, status |-> rq.dnItem.status],
   new_values |-> [returned_quantity |-> rq.newReturnedQuantity, status |-> rq.newStatus]]

\* A failed audit insert fails the request.
HandlerAudit_Strict(r, o) ==
  /\ req[r].pc = "audit"
  /\ IF o = "ok"
     THEN /\ audit_logs' = Append(audit_logs, AuditRecord(req[r]))
          /\ req' = [req EXCEPT ![r] =
               [Respond(req[r], 200, "Return processed successfully") EXCEPT
                  !.newReturnedQuantity = req[r].newReturnedQuantity,
                  !.newStatus = req[r].newStatus]]
     ELSE /\ UNCHANGED audit_logs
          /\ req' = [req EXCEPT ![r] = Respond(req[r], 500, "Internal server error")]
  /\ UNCHANGED <<users, projects, purchase_orders, delivery_notes, dn_items, storage,
                 call, roleChanges>>

\* Lines 99-131: the audit record by the service role, then the 200 answer;
\* a failed insert is not looked at, a rejected one is caught.
HandlerAudit(r, o) ==
  /\ req[r].pc = "audit"
  /\ IF o = "ok" THEN audit_logs' = Append(audit_logs, AuditRecord(req[r]))
     ELSE UNCHANGED audit_logs
  /\ req' = [req EXCEPT ![r] =
       [Respond(req[r], 200, "Return processed successfully") EXCEPT
          !.newReturnedQuantity = req[r].newReturnedQuantity,
          !.newStatus = req[r].newStatus]]
  /\ UNCHANGED <<users, projects, purchase_orders, delivery_notes, dn_items, storage,
                 call, roleChanges>>

\* The reference scenario: u1 (user) created P1 and u2 (user) P2,
\* m1 is a manager, u0 has no profile row.
Init ==
  /\ users = [p \in Principals |->
       CASE p = "u0" -> NoRow
         [] p = "m1" -> [role |-> "manager"]
         [] OTHER -> [role |-> "user"]]
  /\ projects = [x \in ProjectIds |->
       CASE x = "P0" -> NoRow
         [] x = "P1" -> [created_by |-> "u1"]
         [] x = "P2" -> [created_by |-> "u2"]]
  /\ purchase_orders = [x \in PoIds |->
       CASE x = "PO0" -> NoRow
         [] x = "PO1" -> [project_id |-> "P1"]
         [] x = "PO2" -> [project_id |-> "P2"]]
  /\ delivery_notes = [x \in DnIds |->
       CASE x = "D0" -> NoRow
         [] x = "D1" -> [purchase_order_id |-> "PO1", delivery_date |-> 0]
         [] x = "D2" -> [purchase_order_id |-> "PO2", delivery_date |-> 0]]
  /\ dn_items = [x \in ItemIds |->
       CASE x = "I0" -> NoRow
         [] x = "I1" -> ItemRow("D1", MaxQty, MaxDate)
         [] x = "I2" -> ItemRow("D2", MaxQty, 0)]
  /\ audit_logs = <<>>
  /\ storage = {}
  /\ call = NoCall
  /\ req = [r \in Requests |-> IdleReq]
  /\ roleChanges = 0

Next ==
  \/ \E uid \in Callers, p \in Principals, r \in Roles : UpdateUserRole(uid, p, r)
  \/ \E r \in Requests, method \in {"POST", "GET"}, h \in Headers, i \in RequestItems, o \in Outcomes :
       HandlerStart(r, method, h, i, o)
  \/ \E r \in Requests, n \in Quantities, d \in Dates, f \in FaultsOn({"users"}) :
       HandlerCheckRole(r, n, d, f)
  \/ \E r \in Requests, f \in SingleFaults : HandlerCheckAccess(r, f)
  \/ \E r \in Requests, o \in Outcomes : HandlerFetch(r, o)
  \/ \E r \in Requests, o \in Outcomes : HandlerUpdate(r, o)
  \/ \E r \in Requests, o \in Outcomes : HandlerAudit(r, o)

Spec == Init /\ [][Next]_vars

(***************************************************************************)
(* Properties of the access checks (SpecAccess).  `call` holds the last    *)
(* check, its arguments, the outcome of each lookup and its result, taken  *)
(* against the store as it is.                                             *)
(***************************************************************************)
Privileged(u) == users[u] # NoRow /\ users[u].role \in {"admin", "manager"}
HasRoleUser(u) == users[u] # NoRow /\ users[u].role = "user"
Exists(table, x) == table[x] # NoRow
Creator(u, x) == Exists(projects, x) /\ projects[x].created_by = u

\* The project at the root of a purchase order, and of a delivery-note item.
ProjectOfPo(po) == purchase_orders[po].project_id
PoOfItem(i) == delivery_notes[dn_items[i].delivery_note_id].purchase_order_id
ChainOfItem(i) ==
  /\ Exists(dn_items, i)
  /\ Exists(delivery_notes, dn_items[i].delivery_note_id)
  /\ Exists(purchase_orders, PoOfItem(i))

\* C1: a principal whose role is admin or manager is granted every project,
\* whoever created it (the role lookup answering).
C1_PrivilegedAccessAll ==
  (/\ call.fn = "checkProjectAccess"
   /\ Exists(projects, call.target)
   /\ Privileged(call.userId)
   /\ call.f.users = "ok")
  => call.result = Return(TRUE)

C1_Witness ==
  /\ call.fn = "checkProjectAccess"
  /\ Exists(projects, call.target)
  /\ users[call.userId] = [role |-> "manager"]
  /\ projects[call.target].created_by # call.userId
  /\ call.f.users = "ok"
  /\ call.result = Return(TRUE)

\* C2: a principal with role user is denied every existing project somebody
\* else created.
C2_UserDeniedForeignProject ==
  (/\ call.fn = "checkProjectAccess"
   /\ HasRoleUser(call.userId)
   /\ Exists(projects, call.target)
   /\ projects[call.target].created_by # call.userId)
  => call.result = Return(FALSE)

C2_Witness ==
  /\ call.fn = "checkProjectAccess"
  /\ HasRoleUser(call.userId)
  /\ Exists(projects, call.target)
  /\ projects[call.target].created_by # call.userId
  /\ call.f = NoFault
  /\ call.result = Return(FALSE)

\* C3: the creator of an existing project is granted it, also with role user
\* (the lookups answering).
C3_CreatorAccess ==
  (/\ call.fn = "checkProjectAccess"
   /\ Creator(call.userId, call.target)
   /\ call.f.users = "ok"
   /\ call.f.projects = "ok")
  => call.result = Return(TRUE)

C3_Witness ==
  /\ call.fn = "checkProjectAccess"
  /\ Creator(call.userId, call.target)
  /\ HasRoleUser(call.userId)
  /\ call.f = NoFault
  /\ call.result = Return(TRUE)

\* C4: denial is inherited downwards: when the project check is false, so is
\* the check of every purchase order of that project and of every
\* delivery-note item under such a purchase order.
C4_DenyTransitive ==
  /\ (/\ call.fn = "checkPurchaseOrderAccess"
      /\ Exists(purchase_orders, call.target)
      /\ checkProjectAccess(call.userId, ProjectOfPo(call.target), call.f) = Return(FALSE))
     => call.result = Return(FALSE)
  /\ (/\ call.fn = "checkDeliveryNoteItemAccess"
      /\ ChainOfItem(call.target)
      /\ checkProjectAccess(call.userId, ProjectOfPo(PoOfItem(call.target)), call.f) = Return(FALSE))
     => call.result = Return(FALSE)

C4_Witness ==
  /\ call.fn = "checkDeliveryNoteItemAccess"
  /\ ChainOfItem(call.target)
  /\ call.f = NoFault
  /\ checkProjectAccess(call.userId, ProjectOfPo(PoOfItem(call.target)), NoFault) = Return(FALSE)
  /\ call.result = Return(FALSE)

\* C5: access is inherited downwards along an existing chain project ->
\* purchase order -> delivery note -> item: when the project check is true the
\* purchase-order and item checks are true; at every level the creator with
\* role user and any manager get true, a non-creator with role user false.
Expected(u, x) == Privileged(u) \/ Creator(u, x)

C5_AllowTransitive ==
  /\ (/\ call.fn = "checkPurchaseOrderAccess"
      /\ Exists(purchase_orders, call.target)
      /\ call.f.purchase_orders = "ok"
      /\ checkProjectAccess(call.userId, ProjectOfPo(call.target), call.f) = Return(TRUE))
     => call.result = Return(TRUE)
  /\ (/\ call.fn = "checkDeliveryNoteItemAccess"
      /\ ChainOfItem(call.target)
      /\ call.f.dn_items = "ok" /\ call.f.purchase_orders = "ok"
      /\ checkProjectAccess(call.userId, ProjectOfPo(PoOfItem(call.target)), call.f) = Return(TRUE))
     => call.result = Return(TRUE)
  /\ call.f = NoFault =>
       /\ (call.fn = "checkProjectAccess" /\ Exists(projects, call.target))
          => call.result = Return(Expected(call.userId, call.target))
       /\ (call.fn = "checkPurchaseOrderAccess" /\ Exists(purchase_orders, call.target))
          => call.result = Return(Expected(call.userId, ProjectOfPo(call.target)))
       /\ (call.fn = "checkDeliveryNoteItemAccess" /\ ChainOfItem(call.target))
          => call.result = Return(Expected(call.userId, ProjectOfPo(PoOfItem(call.target))))

C5_Witness ==
  /\ call.fn = "checkDeliveryNoteItemAccess"
  /\ ChainOfItem(call.target)
  /\ call.f = NoFault
  /\ HasRoleUser(call.userId)
  /\ Creator(call.userId, ProjectOfPo(PoOfItem(call.target)))
  /\ call.result = Return(TRUE)

\* C6: the project check is false for every principal, admin and manager
\* included, when the project id has no row.
C6_MissingProjectDenied ==
  (call.fn = "checkProjectAccess" /\ ~Exists(projects, call.target))
  => call.result = Return(FALSE)

\* C7: the purchase-order check on an id without a row, and the item check on
\* an id without a row, return false for every role and never raise.
C7_MissingChildDenied ==
  /\ (call.fn = "checkPurchaseOrderAccess" /\ ~Exists(purchase_orders, call.target))
     => call.result = Return(FALSE)
  /\ (call.fn = "checkDeliveryNoteItemAccess" /\ ~Exists(dn_items, call.target))
     => call.result = Return(FALSE)

C7_Witness ==
  /\ call.fn = "checkPurchaseOrderAccess"
  /\ ~Exists(purchase_orders, call.target)
  /\ users[call.userId] = [role |-> "admin"]
  /\ call.f = NoFault
  /\ call.result = Return(FALSE)

\* C9: checkUserRole is true exactly when the users lookup succeeds and the
\* stored role is one of the required roles; with no users row, an error or a
\* rejected lookup it is false, and it never throws.
C9_RoleCheckExact ==
  call.fn = "checkUserRole" =>
    call.result = Return(/\ call.f.users = "ok"
                         /\ users[call.userId] # NoRow
                         /\ users[call.userId].role \in call.roles)

C9_Witness ==
  /\ call.fn = "checkUserRole"
  /\ call.f.users = "throw"
  /\ users[call.userId] # NoRow
  /\ users[call.userId].role \in call.roles
  /\ call.result = Return(FALSE)

\* The lookups a check issues, from its control flow.
IssuedByProject(u, x, f) ==
  {"users"} \cup (IF checkUserRole(u, {"admin", "manager"}, f).value THEN {} ELSE {"projects"})
IssuedByPo(u, po, f) ==
  {"purchase_orders"} \cup
  (IF f.purchase_orders = "ok" /\ Exists(purchase_orders, po)
   THEN IssuedByProject(u, ProjectOfPo(po), f) ELSE {})
IssuedByItem(u, i, f) ==
  {"dn_items"} \cup
  (IF f.dn_items = "ok" /\ ChainOfItem(i) THEN IssuedByPo(u, PoOfItem(i), f) ELSE {})
Issued ==
  CASE call.fn = "checkProjectAccess" -> IssuedByProject(call.userId, call.target, call.f)
    [] call.fn = "checkPurchaseOrderAccess" -> IssuedByPo(call.userId, call.target, call.f)
    [] call.fn = "checkDeliveryNoteItemAccess" -> IssuedByItem(call.userId, call.target, call.f)
    [] OTHER -> {}

\* C10: when a lookup issued during a project, purchase-order or item check
\* (the role lookup included) returns an error or throws, the check is false.
C10_ErrorsDeny ==
  (\E t \in Issued : call.f[t] # "ok") => call.result = Return(FALSE)

(***************************************************************************)
(* Properties of the process-return handler (Spec).                        *)
(***************************************************************************)
Stepped(r) == req'[r] # req[r]

\* C8: a process-return request of an authenticated principal whose role is
\* user is answered 403 at the role gate, having changed no dn_items row and
\* written no audit record, and does nothing afterwards; also when the
\* principal created the project of the item.
C8_UserRoleGated ==
  [][\A r \in Requests :
       /\ (req[r].pc = "checkRole" /\ Stepped(r) /\ HasRoleUser(req[r].user))
          => (/\ req'[r].pc = "done"
              /\ req'[r].statusCode = 403
              /\ dn_items' = dn_items
              /\ audit_logs' = audit_logs)
       /\ (req[r].pc \in {"idle", "checkRole"} /\ Stepped(r))
          => (dn_items' = dn_items /\ audit_logs' = audit_logs)
       /\ req[r].pc = "done" => ~Stepped(r)]_vars

C8_Witness ==
  \E r \in Requests :
    /\ req[r].pc = "done"
    /\ req[r].statusCode = 403
    /\ req[r].message = "Only managers and admins can process returns"
    /\ req[r].user = "u1"
    /\ HasRoleUser("u1")
    /\ ChainOfItem(req[r].body.dnItemId)
    /\ Creator("u1", ProjectOfPo(PoOfItem(req[r].body.dnItemId)))
    /\ dn_items[req[r].body.dnItemId].returned_quantity = 0
    /\ audit_logs = <<>>

(***************************************************************************)
(* The storage-side predicate against the application check (SpecAccess).  *)
(***************************************************************************)
\* C11: can_access_project(project_id), evaluated for the caller, and
\* checkProjectAccess(principal, project_id) give the same boolean for every
\* principal, role and project id, whether or not the project has a row (all
\* lookups answering).
C11_StorageMatchesApp ==
  (call.fn = "checkProjectAccess" /\ call.f = NoFault)
  => call.result = Return(can_access_project(call.userId, call.target))

(***************************************************************************)
(* Order of checks and writes in the process-return handler (Spec).        *)
(***************************************************************************)
\* What checkDeliveryNoteItemAccess can at best answer for the store as it is.
ItemAccessible(u, i) ==
  ChainOfItem(i) /\ (Privileged(u) \/ Creator(u, ProjectOfPo(PoOfItem(i))))

Wrote == dn_items' # dn_items \/ audit_logs' # audit_logs

\* C12: in every execution of process-return the dn_items update and the
\* audit_logs insert come only after, in the same request, authentication
\* succeeded, the admin/manager role check was true and the item access check
\* was true, in that order; a request that fails one of the three ends with
\* 401 (authentication) or 403 (role, access) and writes nothing.
C12_CheckBeforeMutate ==
  [][/\ dn_items' # dn_items => \E r \in Requests : req[r].pc = "update" /\ Stepped(r)
     /\ audit_logs' # audit_logs => \E r \in Requests : req[r].pc = "audit" /\ Stepped(r)
     /\ \A r \in Requests : Stepped(r) =>
          /\ req[r].pc = "idle" =>
               /\ ~Wrote
               /\ \/ req'[r].pc = "checkRole" /\ req'[r].user \in Principals
                  \/ req'[r].pc = "done" /\ req'[r].statusCode \in {401, 405}
          /\ req[r].pc = "checkRole" =>
               /\ ~Wrote
               /\ \/ req'[r].pc = "checkAccess" /\ Privileged(req[r].user)
                  \/ req'[r].pc = "done" /\ req'[r].statusCode = 403
                  \/ req'[r].pc = "done" /\ req'[r].statusCode = 400 /\ Privileged(req[r].user)
               /\ ~Privileged(req[r].user) => req'[r].statusCode = 403
          /\ req[r].pc = "checkAccess" =>
               /\ ~Wrote
               /\ \/ req'[r].pc = "fetch" /\ ItemAccessible(req[r].user, req[r].body.dnItemId)
                  \/ req'[r].pc = "done" /\ req'[r].statusCode = 403
               /\ ~ItemAccessible(req[r].user, req[r].body.dnItemId) => req'[r].statusCode = 403
          /\ req[r].pc = "fetch" => ~Wrote /\ req'[r].pc \in {"update", "done"}
          /\ req[r].pc = "update" => req'[r].pc \in {"audit", "done"}
          /\ req[r].pc = "audit" => req'[r].pc = "done"
          /\ req[r].pc # "done"]_vars

\* A return that went through: the row changed and the audit record written;
\* and, next to it, a request stopped at the access check.
C12_Witness ==
  /\ req["r1"].pc = "done" /\ req["r1"].statusCode = 200
  /\ dn_items["I1"].returned_quantity > 0
  /\ Len(audit_logs) > 0
  /\ req["r2"].pc = "done" /\ req["r2"].statusCode = 403
  /\ req["r2"].message = "You do not have access to this delivery note item"

\* C13: a role change from admin/manager to user that lands after the role
\* check of process-return and before its update does not get through: the
\* UPDATE policy of dn_items is evaluated when the update runs, so no dn_items
\* row is changed for a principal whose role is user at that moment.
C13_PolicyAtMutationTime ==
  [][/\ \A r \in Requests :
          (req[r].pc = "update" /\ Stepped(r) /\ ~Privileged(req[r].user))
          => dn_items' = dn_items
     /\ dn_items' # dn_items =>
          \E r \in Requests : req[r].pc = "update" /\ Stepped(r) /\ Privileged(req[r].user)]_vars

\* The race: m1 passed the role gate, the access check and the fetch as a
\* manager, was made a user, and the update that followed changed nothing.
C13_Witness ==
  \E r \in Requests :
    /\ req[r].pc = "audit"
    /\ req[r].user = "m1"
    /\ HasRoleUser("m1")
    /\ req[r].body.dnItemId = "I1"
    /\ req[r].newReturnedQuantity > 0
    /\ dn_items["I1"].returned_quantity = 0
    /\ dn_items["I1"].status = "delivered"

(***************************************************************************)
(* The upload-po-document and generate-rental-report handlers: for each,   *)
(* the handler that authenticates the caller and works through the         *)
(* caller's client, and the handler that works through the service-role    *)
(* client.  One step per await, as for process-return.                     *)
(***************************************************************************)
\* An object of the bucket: `${poId}/${user.id}/${Date.now()}-${name}` of the
\* first handler (the time stamp told apart by request), `${poId}/${fileName}`
\* of the second.
Path(poId, owner, name) == [poId |-> poId, owner |-> owner, name |-> name]
NoPath == Path("", "", "")

\* A purchase order with its document_url column.
PoRow(project) == [project_id |-> project, document_url |-> NoPath]

\* The locals of a request of these handlers.
IdleFn ==
  [fn |-> "none", pc |-> "idle", user |-> "nobody", target |-> "", file |-> "",
   fileName |-> "", path |-> NoPath, startDate |-> 0, endDate |-> 0, rentalData |-> {},
   statusCode |-> 0, message |-> ""]

\* The request is answered: what it named, what it was given, and the answer.
RespondFn(rq, code, msg) ==
  [IdleFn EXCEPT !.fn = rq.fn, !.pc = "done", !.user = rq.user, !.target = rq.target,
                 !.statusCode = code, !.message = msg]

\* fileUploadSchema: non-empty content, a .pdf/.doc/.docx name, a uuid.
FileContents == {"", "pdf", "big"}
FileNames == {"po.pdf", "po.exe"}
UploadBodies == [file : FileContents, fileName : FileNames, poId : PoIds \cup {"po-1"}]
validateFileUpload(body) ==
  /\ body.file # ""
  /\ body.fileName \in {"po.pdf"}
  /\ body.poId \in PoIds

\* reportGenerationSchema: a uuid, two well-formed dates, start <= end.
ReportBodies == [projectId : ProjectIds \cup {"p-1"}, startDate : Dates, endDate : Dates]
validateReport(body) ==
  /\ body.projectId \in ProjectIds
  /\ body.startDate >= 0
  /\ body.endDate >= 0
  /\ body.startDate <= body.endDate

\* SELECT policy of projects, and the ALL policy of purchase_orders for UPDATE.
projectsSelectPolicy(uid, p) ==
  is_authenticated_user(uid) /\ (projects[p].created_by = uid \/ has_any_role(uid, {"admin", "manager"}))
projectsVisibleTo(uid) ==
  [p \in ProjectIds |->
     IF projects[p] # NoRow /\ projectsSelectPolicy(uid, p) THEN projects[p] ELSE NoRow]
purchaseOrdersUpdatePolicy(uid, po) == has_any_role(uid, {"admin", "manager"})

\* The rows of the rental query: dn_items of the project's purchase orders
\* delivered within the period.
rentalRows(table, projectId, startDate, endDate) ==
  {i \in ItemIds :
     /\ table[i] # NoRow
     /\ delivery_notes[table[i].delivery_note_id] # NoRow
     /\ purchase_orders[delivery_notes[table[i].delivery_note_id].purchase_order_id] # NoRow
     /\ purchase_orders[delivery_notes[table[i].delivery_note_id].purchase_order_id].project_id
          = projectId
     /\ delivery_notes[table[i].delivery_note_id].delivery_date >= startDate
     /\ delivery_notes[table[i].delivery_note_id].delivery_date <= endDate}

\* upload-po-document, lines 11-38: method, token, authenticateUser, validation.
UploadStart(r, method, authHeader, body, o) ==
  /\ req[r].pc = "idle"
  /\ LET authToken == extractAuthToken(authHeader)
         rq == [IdleFn EXCEPT !.fn = "upload-po-document", !.target = body.poId,
                              !.file = body.file, !.fileName = body.fileName]
     IN IF method # "POST" THEN req' = [req EXCEPT ![r] = RespondFn(rq, 405, "Method not allowed")]
        ELSE IF authToken = NoHeader
        THEN req' = [req EXCEPT ![r] = RespondFn(rq, 401, "Authentication required")]
        ELSE LET a == authenticateUser(authToken, o) IN
             IF ~a.success \/ a.user = NoRow
             THEN req' = [req EXCEPT ![r] = RespondFn(rq, 401, a.error)]
             ELSE IF ~validateFileUpload(body)
             THEN req' = [req EXCEPT ![r] =
                            RespondFn([rq EXCEPT !.user = a.user.id], 400, "Invalid input data")]
             ELSE req' = [req EXCEPT ![r] =
                            [rq EXCEPT !.pc = "upload.checkAccess", !.user = a.user.id]]
  /\ UNCHANGED <<store, call, roleChanges>>

\* Lines 40-57: access to the purchase order, then the size of the file.
UploadCheckAccess(r, f) ==
  /\ req[r].pc = "upload.checkAccess"
  /\ LET hasAccess == checkPurchaseOrderAccess(req[r].user, req[r].target, f) IN
     IF hasAccess.threw
     THEN req' = [req EXCEPT ![r] = RespondFn(req[r], 500, "Internal server error")]
     ELSE IF ~hasAccess.value
     THEN req' = [req EXCEPT ![r] =
                    RespondFn(req[r], 403, "You do not have access to this purchase order")]
     ELSE IF req[r].file = "big"
     THEN req' = [req EXCEPT ![r] =
                    RespondFn(req[r], 400, "File too large. Maximum size is 10MB")]
     ELSE req' = [req EXCEPT ![r].pc = "upload.store"]
  /\ UNCHANGED <<store, call, roleChanges>>

\* Lines 59-79: the object is stored by the service role; upsert is off.
UploadStore(r, o) ==
  /\ req[r].pc = "upload.store"
  /\ LET filePath == Path(req[r].target, req[r].user, r) IN
     IF o = "throw"
     THEN /\ req' = [req EXCEPT ![r] = RespondFn(req[r], 500, "Internal server error")]
          /\ UNCHANGED storage
     ELSE IF o = "error" \/ filePath \in storage
     THEN /\ req' = [req EXCEPT ![r] = RespondFn(req[r], 500, "Upload failed")]
          /\ UNCHANGED storage
     ELSE /\ req' = [req EXCEPT ![r].pc = "upload.updatePo", ![r].path = filePath]
          /\ storage' = storage \cup {filePath}
  /\ UNCHANGED <<users, projects, purchase_orders, delivery_notes, dn_items, audit_logs,
                 call, roleChanges>>

\* Lines 81-107: document_url is set through the caller's client, under the
\* UPDATE policy of purchase_orders.
UploadUpdatePo(r, o) ==
  /\ req[r].pc = "upload.updatePo"
  /\ LET po == req[r].target IN
     IF o = "throw"
     THEN /\ req' = [req EXCEPT ![r] = RespondFn(req[r], 500, "Internal server error")]
          /\ UNCHANGED purchase_orders
     ELSE IF o = "error"
     THEN /\ req' = [req EXCEPT ![r].pc = "upload.cleanup"]
          /\ UNCHANGED purchase_orders
     ELSE /\ req' = [req EXCEPT ![r] =
                       [RespondFn(req[r], 200, "File uploaded successfully") EXCEPT
                          !.path = req[r].path]]
          /\ IF purchase_orders[po] # NoRow /\ purchaseOrdersUpdatePolicy(req[r].user, po)
             THEN purchase_orders' = [purchase_orders EXCEPT ![po].document_url = req[r].path]
             ELSE UNCHANGED purchase_orders
  /\ UNCHANGED <<users, projects, delivery_notes, dn_items, audit_logs, storage,
                 call, roleChanges>>

\* Lines 95-100: the stored object is removed after a failed update; the
\* result of the removal is not looked at.
UploadCleanup(r, o) ==
  /\ req[r].pc = "upload.cleanup"
  /\ IF o = "ok" THEN storage' = storage \ {req[r].path} ELSE UNCHANGED storage
  /\ IF o = "throw"
     THEN req' = [req EXCEPT ![r] = RespondFn(req[r], 500, "Internal server error")]
     ELSE req' = [req EXCEPT ![r] = RespondFn(req[r], 500, "Failed to update purchase order")]
  /\ UNCHANGED <<users, projects, purchase_orders, delivery_notes, dn_items, audit_logs,
                 call, roleChanges>>

\* upload-po-document through the service role, lines 121-131: method and
\* required fields; no token is read.
UploadServiceStart(r, method, body) ==
  /\ req[r].pc = "idle"
  /\ LET rq == [IdleFn EXCEPT !.fn = "upload-po-document (service role)", !.target = body.poId,
                              !.file = body.file, !.fileName = body.fileName]
     IN IF method # "POST" THEN req' = [req EXCEPT ![r] = RespondFn(rq, 405, "Method not allowed")]
        ELSE IF body.file = "" \/ body.fileName = "" \/ body.poId = ""
        THEN req' = [req EXCEPT ![r] = RespondFn(rq, 400, "Missing required fields")]
        ELSE req' = [req EXCEPT ![r] = [rq EXCEPT !.pc = "uploadService.store"]]
  /\ UNCHANGED <<store, call, roleChanges>>

\* Lines 133-147: the object is stored; upsert is on.
UploadServiceStore(r, o) ==
  /\ req[r].pc = "uploadService.store"
  /\ LET filePath == Path(req[r].target, "", req[r].fileName) IN
     IF o = "throw"
     THEN /\ req' = [req EXCEPT ![r] = RespondFn(req[r], 500, "Internal server error")]
          /\ UNCHANGED storage
     ELSE IF o = "error"
     THEN /\ req' = [req EXCEPT ![r] = RespondFn(req[r], 500, "Upload failed")]
          /\ UNCHANGED storage
     ELSE /\ req' = [req EXCEPT ![r].pc = "uploadService.updatePo", ![r].path = filePath]
          /\ storage' = storage \cup {filePath}
  /\ UNCHANGED <<users, projects, purchase_orders, delivery_notes, dn_items, audit_logs,
                 call, roleChanges>>

\* Lines 149-173: document_url is set by the service role, no policy applies;
\* an id that is not a uuid is an error of the query.
UploadServiceUpdatePo(r, o) ==
  /\ req[r].pc = "uploadService.updatePo"
  /\ LET po == req[r].target IN
     IF o = "throw"
     THEN /\ req' = [req EXCEPT ![r] = RespondFn(req[r], 500, "Internal server error")]
          /\ UNCHANGED purchase_orders
     ELSE IF o = "error" \/ po \notin PoIds
     THEN /\ req' = [req EXCEPT ![r] = RespondFn(req[r], 500, "Failed to update PO")]
          /\ UNCHANGED purchase_orders
     ELSE /\ req' = [req EXCEPT ![r] =
                       [RespondFn(req[r], 200, "File uploaded successfully") EXCEPT
                          !.path = req[r].path]]
          /\ IF purchase_orders[po] # NoRow
             THEN purchase_orders' = [purchase_orders EXCEPT ![po].document_url = req[r].path]
             ELSE UNCHANGED purchase_orders
  /\ UNCHANGED <<users, projects, delivery_notes, dn_items, audit_logs, storage,
                 call, roleChanges>>

\* generate-rental-report, lines 547-574: method, token, authenticateUser,
\* validation.
ReportStart(r, method, authHeader, body, o) ==
  /\ req[r].pc = "idle"
  /\ LET authToken == extractAuthToken(authHeader)
         rq == [IdleFn EXCEPT !.fn = "generate-rental-report", !.target = body.projectId,
                              !.startDate = body.startDate, !.endDate = body.endDate]
     IN IF method # "POST" THEN req' = [req EXCEPT ![r] = RespondFn(rq, 405, "Method not allowed")]
        ELSE IF authToken = NoHeader
        THEN req' = [req EXCEPT ![r] = RespondFn(rq, 401, "Authentication required")]
        ELSE LET a == authenticateUser(authToken, o) IN
             IF ~a.success \/ a.user = NoRow
             THEN req' = [req EXCEPT ![r] = RespondFn(rq, 401, a.error)]
             ELSE IF ~validateReport(body)
             THEN req' = [req EXCEPT ![r] =
                            RespondFn([rq EXCEPT !.user = a.user.id], 400, "Invalid input data")]
             ELSE req' = [req EXCEPT ![r] =
                            [rq EXCEPT !.pc = "report.checkAccess", !.user = a.user.id]]
  /\ UNCHANGED <<store, call, roleChanges>>

\* The project is looked up before the access check: a missing project is
\* answered 404, a foreign one 403.
ReportCheckAccess_LookupFirst(r, f) ==
  /\ req[r].pc = "report.checkAccess"
  /\ LET q == single(projects, req[r].target, f.projects)
         hasAccess == checkProjectAccess(req[r].user, req[r].target, f) IN
     IF q.thrown
     THEN req' = [req EXCEPT ![r] = RespondFn(req[r], 500, "Report generation failed")]
     ELSE IF q.error \/ q.data = NoRow
     THEN req' = [req EXCEPT ![r] = RespondFn(req[r], 404, "Project not found")]
     ELSE IF ~hasAccess.value
     THEN req' = [req EXCEPT ![r] =
                    RespondFn(req[r], 403, "You do not have access to this project")]
     ELSE req' = [req EXCEPT ![r].pc = "report.project"]
  /\ UNCHANGED <<store, call, roleChanges>>

\* Lines 576-580: access to the project.
ReportCheckAccess(r, f) ==
  /\ req[r].pc = "report.checkAccess"
  /\ LET hasAccess == checkProjectAccess(req[r].user, req[r].target, f) IN
     IF hasAccess.threw
     THEN req' = [req EXCEPT ![r] = RespondFn(req[r], 500, "Report generation failed")]
     ELSE IF ~hasAccess.value
     THEN req' = [req EXCEPT ![r] =
                    RespondFn(req[r], 403, "You do not have access to this project")]
     ELSE req' = [req EXCEPT ![r].pc = "report.project"]
  /\ UNCHANGED <<store, call, roleChanges>>

\* Lines 582-591: the project's name, through the caller's client.
ReportFetchProject(r, o) ==
  /\ req[r].pc = "report.project"
  /\ LET q == single(projectsVisibleTo(req[r].user), req[r].target, o) IN
     IF q.thrown
     THEN req' = [req EXCEPT ![r] = RespondFn(req[r], 500, "Report generation failed")]
     ELSE IF q.error \/ q.data = NoRow
     THEN req' = [req EXCEPT ![r] = RespondFn(req[r], 404, "Project not found")]
     ELSE req' = [req EXCEPT ![r].pc = "report.data"]
  /\ UNCHANGED <<store, call, roleChanges>>

\* Lines 593-614: the rental rows the caller's SELECT policy shows.
ReportFetchData(r, o) ==
  /\ req[r].pc = "report.data"
  /\ LET rows == rentalRows(dnItemsVisibleTo(req[r].user), req[r].target,
                            req[r].startDate, req[r].endDate) IN
     IF o = "throw"
     THEN req' = [req EXCEPT ![r] = RespondFn(req[r], 500, "Report generation failed")]
     ELSE IF o = "error"
     THEN req' = [req EXCEPT ![r] = RespondFn(req[r], 500, "Failed to fetch rental data")]
     ELSE IF rows = {}
     THEN req' = [req EXCEPT ![r] =
                    RespondFn(req[r], 404, "No rental data found for the specified period")]
     ELSE req' = [req EXCEPT ![r].pc = "report.pdf", ![r].rentalData = rows]
  /\ UNCHANGED <<store, call, roleChanges>>

\* Lines 616-752: the report is rendered and returned.
ReportPdf(r, o) ==
  /\ req[r].pc = "report.pdf"
  /\ IF o = "ok"
     THEN req' = [req EXCEPT ![r] =
                    [RespondFn(req[r], 200, "rental-report.pdf") EXCEPT
                       !.rentalData = req[r].rentalData]]
     ELSE req' = [req EXCEPT ![r] = RespondFn(req[r], 500, "PDF generation failed")]
  /\ UNCHANGED <<store, call, roleChanges>>

\* generate-rental-report through the service role, lines 395-401: the
\* method; no token is read and the body is not validated.
ReportServiceStart(r, method, body) ==
  /\ req[r].pc = "idle"
  /\ LET rq == [IdleFn EXCEPT !.fn = "generate-rental-report (service role)",
                              !.target = body.projectId,
                              !.startDate = body.startDate, !.endDate = body.endDate]
     IN IF method # "POST" THEN req' = [req EXCEPT ![r] = RespondFn(rq, 405, "Method not allowed")]
        ELSE req' = [req EXCEPT ![r] = [rq EXCEPT !.pc = "reportService.data"]]
  /\ UNCHANGED <<store, call, roleChanges>>

\* Lines 403-420: the rental rows, no policy applies; an id that is not a
\* uuid is an error of the query.
ReportServiceFetchData(r, o) ==
  /\ req[r].pc = "reportService.data"
  /\ LET rows == rentalRows(dn_items, req[r].target, req[r].startDate, req[r].endDate) IN
     IF o = "throw"
     THEN req' = [req EXCEPT ![r] = RespondFn(req[r], 500, "Report generation failed")]
     ELSE IF o = "error" \/ req[r].target \notin ProjectIds
     THEN req' = [req EXCEPT ![r] = RespondFn(req[r], 500, "Failed to fetch data")]
     ELSE req' = [req EXCEPT ![r].pc = "reportService.pdf", ![r].rentalData = rows]
  /\ UNCHANGED <<store, call, roleChanges>>

\* Lines 422-534: the report is rendered and sent.
ReportServicePdf(r, o) ==
  /\ req[r].pc = "reportService.pdf"
  /\ IF o = "ok"
     THEN req' = [req EXCEPT ![r] =
                    [RespondFn(req[r], 200, "rental-report.pdf") EXCEPT
                       !.rentalData = req[r].rentalData]]
     ELSE req' = [req EXCEPT ![r] = RespondFn(req[r], 500, "Report generation failed")]
  /\ UNCHANGED <<store, call, roleChanges>>

\* The reference scenario, purchase orders with their document_url.
InitFunctions ==
  /\ users = [p \in Principals |->
       CASE p = "u0" -> NoRow
         [] p = "m1" -> [role |-> "manager"]
         [] OTHER -> [role |-> "user"]]
  /\ projects = [x \in ProjectIds |->
       CASE x = "P0" -> NoRow
         [] x = "P1" -> [created_by |-> "u1"]
         [] x = "P2" -> [created_by |-> "u2"]]
  /\ purchase_orders = [x \in PoIds |->
       CASE x = "PO0" -> NoRow
         [] x = "PO1" -> PoRow("P1")
         [] x = "PO2" -> PoRow("P2")]
  /\ delivery_notes = [x \in DnIds |->
       CASE x = "D0" -> NoRow
         [] x = "D1" -> [purchase_order_id |-> "PO1", delivery_date |-> 0]
         [] x = "D2" -> [purchase_order_id |-> "PO2", delivery_date |-> 0]]
  /\ dn_items = [x \in ItemIds |->
       CASE x = "I0" -> NoRow
         [] x = "I1" -> ItemRow("D1", MaxQty, MaxDate)
         [] x = "I2" -> ItemRow("D2", MaxQty, 0)]
  /\ audit_logs = <<>>
  /\ storage = {}
  /\ call = NoCall
  /\ req = [r \in Requests |-> IdleReq]
  /\ roleChanges = 0

\* One request, of any handler, next to the role changes.
OneRequest == {"r1"}

NextFunctions ==
  \/ \E uid \in Callers, p \in Principals, r \in Roles : UpdateUserRole(uid, p, r)
  \/ \E r \in OneRequest, method \in {"POST", "GET"}, h \in Headers, i \in RequestItems, o \in Outcomes :
       HandlerStart(r, method, h, i, o)
  \/ \E r \in OneRequest, n \in Quantities, d \in Dates, f \in FaultsOn({"users"}) :
       HandlerCheckRole(r, n, d, f)
  \/ \E r \in OneRequest, f \in SingleFaults : HandlerCheckAccess(r, f)
  \/ \E r \in OneRequest, o \in Outcomes : HandlerFetch(r, o)
  \/ \E r \in OneRequest, o \in Outcomes : HandlerUpdate(r, o)
  \/ \E r \in OneRequest, o \in Outcomes : HandlerAudit(r, o)
  \/ \E r \in OneRequest, method \in {"POST", "GET"}, h \in Headers, b \in UploadBodies, o \in Outcomes :
       UploadStart(r, method, h, b, o)
  \/ \E r \in OneRequest, f \in SingleFaults : UploadCheckAccess(r, f)
  \/ \E r \in OneRequest, o \in Outcomes : UploadStore(r, o)
  \/ \E r \in OneRequest, o \in Outcomes : UploadUpdatePo(r, o)
  \/ \E r \in OneRequest, o \in Outcomes : UploadCleanup(r, o)
  \/ \E r \in OneRequest, method \in {"POST", "GET"}, b \in UploadBodies : UploadServiceStart(r, method, b)
  \/ \E r \in OneRequest, o \in Outcomes : UploadServiceStore(r, o)
  \/ \E r \in OneRequest, o \in Outcomes : UploadServiceUpdatePo(r, o)
  \/ \E r \in OneRequest, method \in {"POST", "GET"}, h \in Headers, b \in ReportBodies, o \in Outcomes :
       ReportStart(r, method, h, b, o)
  \/ \E r \in OneRequest, f \in SingleFaults : ReportCheckAccess(r, f)
  \/ \E r \in OneRequest, o \in Outcomes : ReportFetchProject(r, o)
  \/ \E r \in OneRequest, o \in Outcomes : ReportFetchData(r, o)
  \/ \E r \in OneRequest, o \in {"ok", "throw"} : ReportPdf(r, o)
  \/ \E r \in OneRequest, method \in {"POST", "GET"}, b \in ReportBodies : ReportServiceStart(r, method, b)
  \/ \E r \in OneRequest, o \in Outcomes : ReportServiceFetchData(r, o)
  \/ \E r \in OneRequest, o \in {"ok", "throw"} : ReportServicePdf(r, o)

SpecFunctions == InitFunctions /\ [][NextFunctions]_vars

(***************************************************************************)
(* Properties of the handlers taken together (SpecFunctions).              *)
(***************************************************************************)
\* The caller has role user and the resource is either missing or belongs to
\* a project somebody else created.
DeniedForOwnership(u, project) == HasRoleUser(u) /\ ~Creator(u, project)
ForeignOrMissingPo(u, po) ==
  HasRoleUser(u) /\ (Exists(purchase_orders, po) => ~Creator(u, ProjectOfPo(po)))
ForeignOrMissingItem(u, i) ==
  HasRoleUser(u) /\ (ChainOfItem(i) => ~Creator(u, ProjectOfPo(PoOfItem(i))))

Answered(r, code, msg) ==
  req'[r].pc = "done" /\ req'[r].statusCode = code /\ req'[r].message = msg

\* C14: for a principal denied for ownership reasons (role user, not the
\* creator) the answer of upload-po-document, generate-rental-report and
\* process-return, status and body, is the same whether the resource id has no
\* row or names a resource of somebody else's project.
C14_NoExistenceLeak ==
  [][\A r \in Requests : Stepped(r) =>
       /\ (req[r].pc = "upload.checkAccess" /\ ForeignOrMissingPo(req[r].user, req[r].target))
          => Answered(r, 403, "You do not have access to this purchase order")
       /\ (req[r].pc = "report.checkAccess" /\ DeniedForOwnership(req[r].user, req[r].target))
          => Answered(r, 403, "You do not have access to this project")
       /\ (req[r].pc = "checkRole" /\ ForeignOrMissingItem(req[r].user, req[r].body.dnItemId))
          => Answered(r, 403, "Only managers and admins can process returns")
       /\ (req[r].pc \in {"upload.checkAccess", "report.checkAccess", "checkRole"}
           /\ HasRoleUser(req[r].user) /\ req'[r].pc = "done" /\ req'[r].statusCode \in {403, 404})
          => req'[r].message \in {"You do not have access to this purchase order",
                                  "You do not have access to this project",
                                  "Only managers and admins can process returns"}]_vars

\* u1, a user, asked for the report of a project id that has no row.
C14_Witness ==
  /\ req["r1"].fn = "generate-rental-report"
  /\ req["r1"].pc = "done"
  /\ req["r1"].user = "u1"
  /\ HasRoleUser("u1")
  /\ req["r1"].target = "P0"
  /\ req["r1"].statusCode = 403
  /\ req["r1"].message = "You do not have access to this project"

(***************************************************************************)
(* Authentication failures of process-return (Spec).                       *)
(***************************************************************************)
\* The identity provider answers and does not accept the token.
Rejects(token, o) ==
  LET g == getUser(token, o) IN ~g.thrown /\ (g.error \/ g.user = NoRow)

\* C15: a request without a token and a request whose token the identity
\* provider rejects both end with 401 and the same generic body, and neither
\* reads or writes a protected table: the store is left as it was and the
\* request takes no further step.
C15_UnauthenticatedUniform ==
  [][\A r \in Requests :
       /\ (req[r].pc = "idle" /\ Stepped(r)) =>
            \A h \in Headers, i \in RequestItems, o \in Outcomes :
              (/\ extractAuthToken(h) = NoHeader \/ Rejects(extractAuthToken(h), o)
               /\ HandlerStart(r, "POST", h, i, o))
              => (/\ Answered(r, 401, "Authentication required")
                  /\ req'[r].user = "nobody"
                  /\ UNCHANGED store)
       /\ (req[r].pc = "done" /\ req[r].statusCode = 401) => ~Stepped(r)]_vars

\* Side by side: a request without a header and one with an expired token.
C15_Witness ==
  /\ req["r1"].pc = "done" /\ req["r1"].statusCode = 401
  /\ req["r1"].authToken = NoHeader
  /\ req["r2"].pc = "done" /\ req["r2"].statusCode = 401
  /\ req["r2"].authToken = Header("", "expired")
  /\ req["r1"].message = req["r2"].message
  /\ dn_items["I1"].returned_quantity = 0
  /\ audit_logs = <<>>

(***************************************************************************)
(* The result of authenticateUser (SpecAccess).                            *)
(***************************************************************************)
\* C16: authenticateUser returns exactly one of user and error: success with
\* the user and no error when the provider returns a user without an error;
\* failure with no user and an error when the provider returns an error,
\* returns no user, or throws.
C16_ExactlyOneOfUserAndError ==
  call.fn = "authenticateUser" =>
    LET g == getUser(call.token, call.o)
        a == call.result
    IN /\ (a.user # NoRow) # (a.error # "")
       /\ (~g.thrown /\ ~g.error /\ g.user # NoRow)
          => a = [success |-> TRUE, error |-> "", user |-> g.user]
       /\ (g.thrown \/ g.error \/ g.user = NoRow)
          => (~a.success /\ a.user = NoRow /\ a.error # "")

\* The provider answered with an error next to a user: the call failed.
C16_Witness ==
  /\ call.fn = "authenticateUser"
  /\ call.o = "both"
  /\ call.token = Header("", "u1")
  /\ call.result = [success |-> FALSE, error |-> "Authentication required", user |-> NoRow]

(***************************************************************************)
(* The audit record of process-return (Spec).                              *)
(***************************************************************************)
\* C17: audit logging is best-effort: once the update of dn_items has
\* returned without error, an audit insert that fails, by an error result or
\* by throwing, leaves the answer at 200 success and the dn_items rows as the
\* update left them.
C17_AuditBestEffort ==
  [][\A r \in Requests :
       (req[r].pc = "audit" /\ Stepped(r)) =>
         /\ Answered(r, 200, "Return processed successfully")
         /\ req'[r].newReturnedQuantity = req[r].newReturnedQuantity
         /\ req'[r].newStatus = req[r].newStatus
         /\ dn_items' = dn_items
         /\ \A o \in {"error", "throw"} : HandlerAudit(r, o) => audit_logs' = audit_logs]_vars

\* m1's return went through and was answered 200; no audit record was written.
C17_Witness ==
  \E r \in Requests :
    /\ req[r].pc = "done"
    /\ req[r].statusCode = 200
    /\ req[r].user = "m1"
    /\ req[r].newReturnedQuantity > 0
    /\ dn_items["I1"].returned_quantity = req[r].newReturnedQuantity
    /\ dn_items["I1"].status = req[r].newStatus
    /\ audit_logs = <<>>

(***************************************************************************)
(* Who can change a role (SpecAccess).                                     *)
(***************************************************************************)
\* C18: a role changes only through a privileged update: neither an UPDATE of
\* public.users issued by a principal whose role is user, nor the
\* registration flow, sets a role, the principal's own or another's, to admin
\* or manager.
C18_RoleOnlyByPrivilegedUpdate ==
  [][/\ \A uid \in Principals, p \in Principals, r \in {"admin", "manager"} :
          ~(HasRoleUser(uid) /\ UpdateUserRole(uid, p, r))
     /\ \A p \in Principals, role \in {"admin", "manager"} :
          HandleRegister(p, role) => users' = users]_vars

(***************************************************************************)
(* Access checks after a role change (SpecFunctions).                      *)
(***************************************************************************)
\* C19: access is never cached: every access check answers from the store as
\* it is when the check runs, so once a principal's role has gone from
\* manager to user, the next project, purchase-order or item check of that
\* principal on a project somebody else created is false, whatever an earlier
\* check returned.
C19_AccessNotCached ==
  [][\A r \in Requests : Stepped(r) =>
       /\ (/\ req[r].pc = "checkAccess"
           /\ HasRoleUser(req[r].user)
           /\ ChainOfItem(req[r].body.dnItemId)
           /\ ~Creator(req[r].user, ProjectOfPo(PoOfItem(req[r].body.dnItemId))))
          => Answered(r, 403, "You do not have access to this delivery note item")
       /\ (/\ req[r].pc = "upload.checkAccess"
           /\ HasRoleUser(req[r].user)
           /\ Exists(purchase_orders, req[r].target)
           /\ ~Creator(req[r].user, ProjectOfPo(req[r].target)))
          => Answered(r, 403, "You do not have access to this purchase order")
       /\ (/\ req[r].pc = "report.checkAccess"
           /\ HasRoleUser(req[r].user)
           /\ Exists(projects, req[r].target)
           /\ ~Creator(req[r].user, req[r].target))
          => Answered(r, 403, "You do not have access to this project")]_vars

\* m1 passed the role gate of process-return as a manager, was made a user,
\* and the item check that followed was false.
C19_Witness ==
  /\ req["r1"].fn = "process-return"
  /\ req["r1"].pc = "done"
  /\ req["r1"].user = "m1"
  /\ req["r1"].body.dnItemId = "I1"
  /\ req["r1"].statusCode = 403
  /\ req["r1"].message = "You do not have access to this delivery note item"
  /\ HasRoleUser("m1")
  /\ roleChanges = 1

(***************************************************************************)
(* Authentication and authorization before access, in every handler        *)
(* (SpecFunctions).                                                        *)
(***************************************************************************)
\* The positions at which a handler reads or writes a table or the bucket,
\* and the positions of the access checks.
AccessSteps ==
  {"fetch", "update", "audit",
   "upload.store", "upload.updatePo", "upload.cleanup",
   "report.project", "report.data",
   "uploadService.store", "uploadService.updatePo", "reportService.data"}
CheckSteps == {"checkAccess", "upload.checkAccess", "report.checkAccess"}

\* C20: every handler of process-return, upload-po-document and
\* generate-rental-report authenticates the caller and checks the caller's
\* access to the target before it reads or writes it: a step that touches a
\* table or the bucket belongs to a request of an authenticated principal, and
\* a request comes to its first such step only from its access check.
C20_EveryHandlerChecksFirst ==
  [][\A r \in Requests : Stepped(r) =>
       /\ req[r].pc \in AccessSteps => req[r].user \in Principals
       /\ (req'[r].pc \in AccessSteps /\ req[r].pc \notin AccessSteps)
          => req[r].pc \in CheckSteps
       /\ (\/ storage' # storage
           \/ purchase_orders' # purchase_orders
           \/ dn_items' # dn_items
           \/ audit_logs' # audit_logs)
          => req[r].user \in Principals]_vars

(***************************************************************************)
(* The access checks as reads (SpecAccess).                                *)
(***************************************************************************)
CheckNames ==
  {"authenticateUser", "checkUserRole", "checkProjectAccess", "checkPurchaseOrderAccess",
   "checkDeliveryNoteItemAccess"}

\* The recorded check, run once more against the store as it is.
Again ==
  CASE call.fn = "authenticateUser" -> authenticateUser(call.token, call.o)
    [] call.fn = "checkUserRole" -> checkUserRole(call.userId, call.roles, call.f)
    [] call.fn = "checkProjectAccess" -> checkProjectAccess(call.userId, call.target, call.f)
    [] call.fn = "checkPurchaseOrderAccess" ->
         checkPurchaseOrderAccess(call.userId, call.target, call.f)
    [] call.fn = "checkDeliveryNoteItemAccess" ->
         checkDeliveryNoteItemAccess(call.userId, call.target, call.f)
    [] OTHER -> call.result

Stripped(v) == IF v.prefix = "Bearer " THEN Header("", v.rest) ELSE v

\* The claim as written: null with neither header; else the value of a header
\* that is there, without its leading 'Bearer ' or whole.
C22_Original ==
  call.fn = "extractAuthToken" =>
    LET present == {call.headers.authorization, call.headers.Authorization} \ {NoHeader} IN
    IF present = {} THEN call.result = Return(NoHeader)
    ELSE \E v \in present : call.result = Return(Stripped(v))

\* C22: extractAuthToken returns null when neither the authorization nor the
\* Authorization header has a non-empty value; else, for the first of the two
\* that has one, the value with the leading 'Bearer ' removed when it starts
\* with 'Bearer ', and the whole value unchanged otherwise.
C22_ExtractAuthToken ==
  call.fn = "extractAuthToken" =>
    LET a == call.headers.authorization
        b == call.headers.Authorization
    IN /\ (~truthy(a) /\ ~truthy(b)) => call.result = Return(NoHeader)
       /\ truthy(a) => call.result = Return(Stripped(a))
       /\ (~truthy(a) /\ truthy(b)) => call.result = Return(Stripped(b))
       /\ call.result # Return(NoHeader) =>
            \E v \in {a, b} \ {NoHeader} :
              /\ v.prefix = "Bearer " => call.result.value = [prefix |-> "", rest |-> v.rest]
              /\ v.prefix # "Bearer " => call.result.value = v

\* The key with the capital A alone, with a Bearer value: the token is what
\* follows the prefix.
C22_Witness ==
  /\ call.fn = "extractAuthToken"
  /\ call.headers = [authorization |-> NoHeader, Authorization |-> Header("Bearer ", "u1")]
  /\ call.result = Return(Header("", "u1"))

(***************************************************************************)
(* Quantities and status of the dn_items rows (Spec).                      *)
(***************************************************************************)
QuantityInRange(row) ==
  row # NoRow => (0 <= row.returned_quantity /\ row.returned_quantity <= row.delivered_quantity)

\* The row the handler's fetch reads for request r, NoRow when the caller's
\* SELECT policy hides it or there is none.
RowRead(r) == dnItemsVisibleTo(req[r].user)[req[r].body.dnItemId]

\* C23: under every interleaving of process-return requests every dn_items row
\* keeps 0 <= returned_quantity <= delivered_quantity; a request whose
\* returnedQuantity, added to the returned_quantity it read, exceeds
\* delivered_quantity is answered 400 and leaves the rows unchanged, and only a
\* request within the limit goes on to the update.
C23_QuantityInvariant ==
  [][/\ \A i \in ItemIds : QuantityInRange(dn_items[i]) /\ QuantityInRange(dn_items'[i])
     /\ \A r \in Requests :
          (req[r].pc = "fetch" /\ Stepped(r)) =>
            /\ (/\ HandlerFetch(r, "ok")
                /\ RowRead(r) # NoRow
                /\ RowRead(r).returned_quantity + req[r].body.returnedQuantity
                     > RowRead(r).delivered_quantity)
               => (/\ Answered(r, 400, "Cannot return more than delivered quantity")
                   /\ dn_items' = dn_items)
            /\ req'[r].pc = "update" =>
                 /\ req'[r].newReturnedQuantity
                      = RowRead(r).returned_quantity + req[r].body.returnedQuantity
                 /\ req'[r].newReturnedQuantity <= RowRead(r).delivered_quantity]_vars

\* One return brought I1 to a part of what was delivered; the next request
\* asked for more than the rest and was answered 400.
C23_Witness ==
  /\ req["r1"].pc = "done" /\ req["r1"].statusCode = 200
  /\ req["r2"].pc = "done" /\ req["r2"].statusCode = 400
  /\ req["r2"].message = "Cannot return more than delivered quantity"
  /\ dn_items["I1"].returned_quantity = 1
  /\ dn_items["I1"].returned_quantity < dn_items["I1"].delivered_quantity
  /\ Len(audit_logs) = 1

(***************************************************************************)
(* The date rule of process-return: one request against an item whose      *)
(* creation time and whose delivery note's delivery date are any two dates. *)
(***************************************************************************)
InitDates ==
  \E delivery_date \in 0..MaxDate, created_at \in 0..MaxDate :
    /\ users = [p \in Principals |->
         CASE p = "u0" -> NoRow
           [] p = "m1" -> [role |-> "manager"]
           [] OTHER -> [role |-> "user"]]
    /\ projects = [x \in ProjectIds |->
         CASE x = "P0" -> NoRow
           [] x = "P1" -> [created_by |-> "u1"]
           [] x = "P2" -> [created_by |-> "u2"]]
    /\ purchase_orders = [x \in PoIds |->
         CASE x = "PO0" -> NoRow
           [] x = "PO1" -> [project_id |-> "P1"]
           [] x = "PO2" -> [project_id |-> "P2"]]
    /\ delivery_notes = [x \in DnIds |->
         CASE x = "D0" -> NoRow
           [] x = "D1" -> [purchase_order_id |-> "PO1", delivery_date |-> delivery_date]
           [] x = "D2" -> [purchase_order_id |-> "PO2", delivery_date |-> 0]]
    /\ dn_items = [x \in ItemIds |->
         CASE x = "I0" -> NoRow
           [] x = "I1" -> ItemRow("D1", MaxQty, created_at)
           [] x = "I2" -> ItemRow("D2", MaxQty, 0)]
    /\ audit_logs = <<>>
    /\ storage = {}
    /\ call = NoCall
    /\ req = [r \in Requests |-> IdleReq]
    /\ roleChanges = 0

NextDates ==
  \/ \E r \in OneRequest, method \in {"POST", "GET"}, h \in Headers, i \in RequestItems, o \in Outcomes :
       HandlerStart(r, method, h, i, o)
  \/ \E r \in OneRequest, n \in Quantities, d \in Dates, f \in FaultsOn({"users"}) :
       HandlerCheckRole(r, n, d, f)
  \/ \E r \in OneRequest, f \in SingleFaults : HandlerCheckAccess(r, f)
  \/ \E r \in OneRequest, o \in Outcomes : HandlerFetch(r, o)
  \/ \E r \in OneRequest, o \in Outcomes : HandlerUpdate(r, o)
  \/ \E r \in OneRequest, o \in Outcomes : HandlerAudit(r, o)

SpecDates == InitDates /\ [][NextDates]_vars

\* C24: a process-return request whose return date is earlier than the
\* delivery date of the item's delivery note is rejected with status 400 and
\* does not come to the update of the row.
C24_ReturnBeforeDeliveryRejected ==
  [][\A r \in OneRequest :
       (/\ req[r].pc = "fetch"
        /\ HandlerFetch(r, "ok")
        /\ RowRead(r) # NoRow
        /\ req[r].body.returnDate < delivery_notes[RowRead(r).delivery_note_id].delivery_date)
       => (/\ req'[r].pc = "done"
           /\ req'[r].statusCode = 400
           /\ dn_items' = dn_items)]_vars

(***************************************************************************)
(* The stored object of a failed upload (SpecFunctions).                   *)
(***************************************************************************)
\* C25: in upload-po-document, whenever the file was stored and the request
\* does not end with a 200 response, the object stored by that request has
\* been removed: a failed request leaves no file behind.
C25_UploadCompensated ==
  \A r \in Requests :
    (/\ req[r].fn = "upload-po-document"
     /\ req[r].pc = "done"
     /\ req[r].statusCode # 200)
    => Path(req[r].target, req[r].user, r) \notin storage

(***************************************************************************)
(* Concurrent returns on one row (Spec).                                   *)
(***************************************************************************)
\* C26: no update is lost: every process-return request that is answered 200
\* adds its returnedQuantity to the stored returned_quantity, so that after
\* any interleaving the stored value is the initial one plus the sum over the
\* requests answered 200.  Stated for the update step of a request whose
\* caller is admin or manager when the update runs; that step is followed by
\* the audit record and the 200 answer.
C26_NoLostUpdate ==
  [][\A r \in Requests :
       (/\ req[r].pc = "update"
        /\ req'[r].pc = "audit"
        /\ Privileged(req[r].user))
       => dn_items'[req[r].body.dnItemId].returned_quantity
            = dn_items[req[r].body.dnItemId].returned_quantity + req[r].body.returnedQuantity]_vars

\* C27: fully_returned is terminal: once a dn_items row has status
\* fully_returned, no step of a process-return request, under any
\* interleaving, changes its status or its returned_quantity.
C27_FullyReturnedTerminal ==
  [][\A i \in ItemIds :
       (dn_items[i] # NoRow /\ dn_items[i].status = "fully_returned")
       => (/\ dn_items'[i] # NoRow
           /\ dn_items'[i].status = "fully_returned"
           /\ dn_items'[i].returned_quantity = dn_items[i].returned_quantity)]_vars

\* C28: in every reachable state each dn_items row has status delivered only
\* with returned_quantity = 0, partial_return only with
\* 0 < returned_quantity < delivered_quantity, and fully_returned only with
\* returned_quantity = delivered_quantity.
C28_StatusMatchesQuantities ==
  \A i \in ItemIds :
    dn_items[i] # NoRow =>
      /\ dn_items[i].status \in {"delivered", "partial_return", "fully_returned"}
      /\ dn_items[i].status = "delivered" => dn_items[i].returned_quantity = 0
      /\ dn_items[i].status = "partial_return" =>
           /\ 0 < dn_items[i].returned_quantity
           /\ dn_items[i].returned_quantity < dn_items[i].delivered_quantity
      /\ dn_items[i].status = "fully_returned" =>
           dn_items[i].returned_quantity = dn_items[i].delivered_quantity

\* Two overlapping returns on I1: the one for everything was written first,
\* the one for a part last; the row says partial_return with the part.
C28_Witness ==
  /\ req["r1"].pc = "done" /\ req["r1"].statusCode = 200
  /\ req["r1"].newStatus = "fully_returned"
  /\ req["r2"].pc = "done" /\ req["r2"].statusCode = 200
  /\ req["r2"].newStatus = "partial_return"
  /\ dn_items["I1"].status = "partial_return"
  /\ dn_items["I1"].returned_quantity = 1

(***************************************************************************)
(* What a 200 answer of process-return stands for (Spec).                  *)
(***************************************************************************)
\* C29: a 200 answer of process-return, and the RETURN_PROCESSED audit record
\* written with it, imply that the request updated the dn_items row to the
\* returned_quantity and status it reports, also when the caller's role
\* changes or another request writes the row between the checks and the
\* update: the update step that leads to the audit record and the 200 answer
\* leaves the row with the new quantity and status.
C29_SuccessMeansUpdated ==
  [][\A r \in Requests :
       (req[r].pc = "update" /\ req'[r].pc = "audit")
       => (/\ dn_items'[req[r].body.dnItemId] # NoRow
           /\ dn_items'[req[r].body.dnItemId].returned_quantity = req[r].newReturnedQuantity
           /\ dn_items'[req[r].body.dnItemId].status = req[r].newStatus)]_vars

====
